---- MODULE Spec2Model ----
(***************************************************************************)
(* The passive fitting-room flow of the LINE bot: the Redis-backed         *)
(* UserStateService (session state, per-operation locks, synthesis         *)
(* result), the Redis-backed ImageCacheService and the FlowManagerService  *)
(* state machine with its detached background synthesis.                   *)
(*                                                                         *)
(* Every Redis command is one atomic step; a handler is a sequence of such *)
(* steps and the steps of different handlers interleave freely (several    *)
(* webhook deliveries, several server instances).  A slot runs one event   *)
(* handler; when the handler fires performBackgroundSynthesis without      *)
(* awaiting it, the handler is finished and the slot goes on as that       *)
(* background task.                                                        *)
(*                                                                         *)
(* Two other versions of the flow in the repository are described as far   *)
(* as their own claims need: the EventRouterService with the               *)
(* FlowOrchestratorService (validation, routing, background synthesis) and *)
(* the pending-image flow of the older CommandService.                     *)
(***************************************************************************)
EXTENDS Naturals, Sequences, FiniteSets, TLC

\* ------------------------------------------------------------------ bounds
NumSlots == 2
MaxTicks == 2

Slots == 1..NumSlots

\* ------------------------------------------------------- program constants
LOCK_TTL == 120
SYNTHESIS_TTL == 1800
CACHE_TIMEOUT == 1800
STATE_TIMEOUT == 1800
PENDING_TIMEOUT == 300

IDLE == "idle"
PASSIVE_AWAITING_CHARACTER == "passive_awaiting_character"
PASSIVE_AWAITING_CLOTHING == "passive_awaiting_clothing"
GENERATING_IMAGE == "generating_image"
PASSIVE_AWAITING_RESULT_CHECK_CHARACTER == "passive_awaiting_result_check_character"
PASSIVE_AWAITING_RESULT_CHECK_CLOTHING == "passive_awaiting_result_check_clothing"

USER_STATES ==
  { IDLE, PASSIVE_AWAITING_CHARACTER, PASSIVE_AWAITING_CLOTHING, GENERATING_IMAGE,
    PASSIVE_AWAITING_RESULT_CHECK_CHARACTER, PASSIVE_AWAITING_RESULT_CHECK_CLOTHING }

PassiveCommand ==
  { "START_FLOW", "CHECK_RESULT", "REGENERATE", "REUPLOAD_CHARACTER",
    "REUPLOAD_CLOTHING", "CLEAR_CHARACTER", "CLEAR_CLOTHING", "CLEAR_ALL",
    "DEV_INIT", "UNKNOWN" }

\* A flow event: FOLLOW, IMAGE_MESSAGE, or a TEXT_MESSAGE given by its parsed command.
FlowEvent == { "FOLLOW", "IMAGE_MESSAGE" } \cup PassiveCommand

Operations == { "character_upload", "clothing_upload", "synthesis", "dev_init" }

\* User ids are opaque strings; U12 is an id that has the id U1 inside it.
Users == { "U1", "U2", "U12" }

\* The characters of a user id.
IdText(u) ==
  CASE u = "U1" -> << "U", "1" >>
    [] u = "U2" -> << "U", "2" >>
    [] OTHER -> << "U", "1", "2" >>

\* Messages of the errors the external synthesis call throws.
ComposeErrors == { "Image synthesis failed: quota", "Image synthesis failed: timeout" }
DownloadError == "image download failed"

NIL == "nil"

\* ------------------------------------------------------------------- state
VARIABLES
  userState,    \* user:state:<u>      [val, ttl]
  lock,         \* user:lock:<u>:<op>  [held, ttl, value]
  synthesis,    \* user:synthesis:<u>  [status, imagePath, errorMessage, ttl]
  images,       \* user:<u>:images     [fields, ttl]
  activeUsers,  \* the set active_users
  slot,         \* the handlers and background tasks in flight
  ticks,        \* number of clock advances so far
  pending       \* user:pending:<u>   [imageId, ttl]

vars == << userState, lock, synthesis, images, activeUsers, slot, ticks, pending >>
store == << userState, lock, synthesis, images, activeUsers, pending >>

AbsentState == [val |-> NIL, ttl |-> 0]
AbsentLock == [held |-> FALSE, ttl |-> 0, value |-> 0]
AbsentResult == [status |-> NIL, imagePath |-> 0, errorMessage |-> "", ttl |-> 0]
AbsentImages == [fields |-> {}, ttl |-> 0]
AbsentPending == [imageId |-> NIL, ttl |-> 0]

IdleSlot ==
  [ pc |-> "idle", uid |-> "U1", ev |-> "UNKNOWN", cur |-> IDLE, op |-> "synthesis",
    acquired |-> FALSE, acquiredAt |-> 0, hasOther |-> FALSE, hasChar |-> FALSE, transitioned |-> FALSE,
    fnError |-> "", trigger |-> "clothing", outcome |-> "",
    obsState |-> IDLE, obsResult |-> AbsentResult, keys |-> {},
    replies |-> << >>, handlerDone |-> FALSE, lockResult |-> NIL ]

Reply(intent, data) == [intent |-> intent, data |-> data]

\* ------------------------------------------------------- UserStateService
getUserState(u) == IF userState[u].val = NIL THEN IDLE ELSE userState[u].val

SetUserStateNoTtl(u, st) == [userState EXCEPT ![u] = [val |-> st, ttl |-> @.ttl]]
setUserState(u, st) == [userState EXCEPT ![u] = [val |-> st, ttl |-> SYNTHESIS_TTL]]

\* The Lua script's test: the stored value equals expected, an absent key counting as idle.
TransitionAlways(u, expected) == TRUE
TransitionTest(u, expected) ==
  \/ userState[u].val = expected
  \/ userState[u].val = NIL /\ expected = IDLE

transitionUserState(u, expected, newState) ==
  IF TransitionTest(u, expected) THEN setUserState(u, newState) ELSE userState

\* SET lockKey <now> PX LOCK_TTL*1000 NX; the value is the time of the call.
AcquireNoNX(u, op) == TRUE
AcquirablePerUser(u, op) == \A o \in Operations : ~lock[u][o].held
LockAcquirable(u, op) == ~lock[u][op].held

AcquireLockNoPX(u, op) ==
  IF ~lock[u][op].held
  THEN [lock EXCEPT ![u][op] = [held |-> TRUE, ttl |-> 4 * SYNTHESIS_TTL, value |-> ticks]]
  ELSE lock

AcquireLock(u, op) ==
  IF LockAcquirable(u, op)
  THEN [lock EXCEPT ![u][op] = [held |-> TRUE, ttl |-> LOCK_TTL, value |-> ticks]]
  ELSE lock

\* DEL lockKey
KeepLock(u, op) == lock
ReleaseLock(u, op) == [lock EXCEPT ![u][op] = AbsentLock]

setSynthesisResult(u, status, imagePath, errorMessage) ==
  [synthesis EXCEPT ![u] = [status |-> status, imagePath |-> imagePath,
                            errorMessage |-> errorMessage, ttl |-> SYNTHESIS_TTL]]
ResetSynthesisResult(u) == setSynthesisResult(u, "processing", 0, "")
clearSynthesisResult(u) == [synthesis EXCEPT ![u] = AbsentResult]

\* ------------------------------------------------------ ImageCacheService
hasImage(u, type) == type \in images[u].fields
saveImage(u, type) ==
  [images EXCEPT ![u] = [fields |-> @.fields \cup {type}, ttl |-> CACHE_TIMEOUT]]
clearImage(u, type) ==
  IF images[u].fields \ {type} = {}
  THEN [images EXCEPT ![u] = AbsentImages]
  ELSE [images EXCEPT ![u].fields = @ \ {type}]
clearAll(u) == [images EXCEPT ![u] = AbsentImages]

\* -------------------------------------------------------------------- Init
Init ==
  /\ userState = [u \in Users |-> AbsentState]
  /\ lock = [u \in Users |-> [op \in Operations |-> AbsentLock]]
  /\ synthesis = [u \in Users |-> AbsentResult]
  /\ images = [u \in Users |-> AbsentImages]
  /\ activeUsers = {}
  /\ slot = [s \in Slots |-> IdleSlot]
  /\ ticks = 0
  /\ pending = [u \in Users |-> AbsentPending]

\* ----------------------------------------------------------- slot helpers
Other(type) == IF type = "character" THEN "clothing" ELSE "character"
UploadType(op) == IF op = "character_upload" THEN "character" ELSE "clothing"
UploadExpected(op) ==
  IF op = "character_upload" THEN PASSIVE_AWAITING_CHARACTER ELSE PASSIVE_AWAITING_CLOTHING
UploadTargetStay(op, hasOther) ==
  IF hasOther THEN GENERATING_IMAGE ELSE UploadExpected(op)
UploadTarget(op, hasOther) ==
  IF hasOther THEN GENERATING_IMAGE
  ELSE IF op = "character_upload" THEN PASSIVE_AWAITING_CLOTHING
  ELSE PASSIVE_AWAITING_CHARACTER

\* targetState of performBackgroundSynthesis
TargetSwapped(lastUploadedType) ==
  IF lastUploadedType = "character"
  THEN PASSIVE_AWAITING_RESULT_CHECK_CLOTHING
  ELSE PASSIVE_AWAITING_RESULT_CHECK_CHARACTER
TargetState(lastUploadedType) ==
  IF lastUploadedType = "character"
  THEN PASSIVE_AWAITING_RESULT_CHECK_CHARACTER
  ELSE PASSIVE_AWAITING_RESULT_CHECK_CLOTHING

Say(r, intent, data) == [r EXCEPT !.replies = Append(@, Reply(intent, data))]

\* The handler has returned: the slot keeps its replies and the outcome of its
\* transition and lock call until it takes the next event.
Finished(r) ==
  [IdleSlot EXCEPT !.pc = "done", !.uid = r.uid, !.transitioned = r.transitioned,
                   !.lockResult = r.lockResult, !.replies = r.replies,
                   !.handlerDone = TRUE]

FireAwaited(r, type) ==
  [r EXCEPT !.pc = "ewl_acquire", !.op = "synthesis", !.trigger = type,
            !.acquired = FALSE, !.transitioned = FALSE, !.lockResult = NIL]

\* The handler calls performBackgroundSynthesis(userId, type) without awaiting it.
Fire(r, type) ==
  [Finished(r) EXCEPT !.pc = "ewl_acquire", !.op = "synthesis", !.trigger = type,
                      !.acquired = FALSE, !.transitioned = FALSE, !.lockResult = NIL]

\* Where fn starts, by operation.
FnEntry(op) ==
  CASE op = "synthesis" -> "bg_set_processing"
    [] op = "dev_init" -> "ca_images"
    [] OTHER -> "img_save"

\* The text-message and image-message switch of processEvent on (event, currentState):
\* the slot as it stands after the dispatch, the handler's first store call pending.
Dispatch(r) ==
  LET e == r.ev
      st == r.cur
      resultCheck == st \in { PASSIVE_AWAITING_RESULT_CHECK_CHARACTER,
                              PASSIVE_AWAITING_RESULT_CHECK_CLOTHING }
      go(pc) == [r EXCEPT !.pc = pc]
  IN
  CASE e = "FOLLOW" -> go("follow_set")
    [] e = "IMAGE_MESSAGE" /\ st = PASSIVE_AWAITING_CHARACTER ->
         [r EXCEPT !.pc = "ewl_acquire", !.op = "character_upload"]
    [] e = "IMAGE_MESSAGE" /\ st = PASSIVE_AWAITING_CLOTHING ->
         [r EXCEPT !.pc = "ewl_acquire", !.op = "clothing_upload"]
    [] e = "IMAGE_MESSAGE" /\ st = IDLE -> Finished(Say(r, "ERROR_START_FIRST", 0))
    [] e = "IMAGE_MESSAGE" -> Finished(Say(r, "ERROR_WRONG_STATE", 0))
    [] st = IDLE /\ e = "START_FLOW" -> go("start_cas")
    [] st = IDLE /\ e = "CLEAR_CHARACTER" -> go("clear_character")
    [] st = IDLE /\ e = "CLEAR_CLOTHING" -> go("clear_clothing")
    [] st = IDLE /\ e = "CLEAR_ALL" -> go("ca_images")
    [] st = IDLE /\ e = "DEV_INIT" -> [r EXCEPT !.pc = "ewl_acquire", !.op = "dev_init"]
    [] st = IDLE /\ e = "REGENERATE" -> go("rg_has_character")
    [] st = IDLE /\ e \in {"REUPLOAD_CHARACTER", "REUPLOAD_CLOTHING"} -> go("ru_set")
    [] st = IDLE -> Finished(Say(r, "WELCOME", 0))
    [] st = PASSIVE_AWAITING_CHARACTER /\ e = "CLEAR_ALL" -> go("ca_images")
    [] st = PASSIVE_AWAITING_CHARACTER -> Finished(Say(r, "REQUEST_CHARACTER", 0))
    [] st = PASSIVE_AWAITING_CLOTHING /\ e = "CLEAR_CHARACTER" -> go("clear_character")
    [] st = PASSIVE_AWAITING_CLOTHING /\ e = "CLEAR_ALL" -> go("ca_images")
    [] st = PASSIVE_AWAITING_CLOTHING -> Finished(Say(r, "REQUEST_CLOTHING", 0))
    [] st = GENERATING_IMAGE /\ e = "CHECK_RESULT" -> go("cr_get_state")
    [] st = GENERATING_IMAGE -> Finished(Say(r, "PROCESSING", 0))
    [] resultCheck /\ e = "CHECK_RESULT" -> go("cr_get_state")
    [] resultCheck /\ e = "REGENERATE" -> go("rg_has_character")
    [] resultCheck /\ e \in {"REUPLOAD_CHARACTER", "REUPLOAD_CLOTHING"} -> go("ru_clear")
    [] resultCheck /\ e = "CLEAR_ALL" -> go("ca_images")
    [] OTHER -> Finished(Say(r, "STILL_PROCESSING", 0))

\* ------------------------------------------------------------ processEvent
\* An event of user u arrives and takes the first free slot (the slots are
\* interchangeable): getUserState, then the dispatch.
Free(s) == slot[s].pc \in {"idle", "done"}

Receive(s, u, e) ==
  /\ Free(s)
  /\ \A t \in Slots : Free(t) => s <= t
  /\ slot' = [slot EXCEPT ![s] =
       Dispatch([IdleSlot EXCEPT !.uid = u, !.ev = e, !.cur = getUserState(u)])]
  /\ UNCHANGED << store, ticks >>

\* The store does not answer: the GET of getUserState rejects, and the catch
\* block of processEvent sends the default error reply; processEvent returns.
getUserStateThrows(s, u, e) ==
  /\ Free(s)
  /\ \A t \in Slots : Free(t) => s <= t
  /\ slot' = [slot EXCEPT ![s] =
       Finished(Say([IdleSlot EXCEPT !.uid = u, !.ev = e], "ERROR_DEFAULT", 0))]
  /\ UNCHANGED << store, ticks >>

handleFollow(s) ==
  LET r == slot[s] IN
  /\ r.pc = "follow_set"
  /\ userState' = setUserState(r.uid, IDLE)
  /\ activeUsers' = activeUsers \cup {r.uid}
  /\ slot' = [slot EXCEPT ![s] = Finished(Say(r, "WELCOME", 0))]
  /\ UNCHANGED << lock, synthesis, images, ticks, pending >>

startPassiveFlow(s) ==
  LET r == slot[s]
      transitioned == TransitionTest(r.uid, IDLE)
      q == [r EXCEPT !.transitioned = transitioned]
  IN
  /\ r.pc = "start_cas"
  /\ userState' = transitionUserState(r.uid, IDLE, PASSIVE_AWAITING_CHARACTER)
  /\ slot' = [slot EXCEPT ![s] =
       Finished(Say(q, IF transitioned THEN "REQUEST_CHARACTER" ELSE "ERROR_CANNOT_START", 0))]
  /\ UNCHANGED << lock, synthesis, images, activeUsers, ticks, pending >>

\* --------------------------------------------------------- executeWithLock
\* The acquisition: on contention the call returns "Operation in progress" from
\* inside the try block, so the finally block runs next in either case.
ewlAcquire(s) ==
  LET r == slot[s]
      got == LockAcquirable(r.uid, r.op)
  IN
  /\ r.pc = "ewl_acquire"
  /\ lock' = AcquireLock(r.uid, r.op)
  /\ slot' = [slot EXCEPT ![s] =
       IF got THEN [r EXCEPT !.pc = FnEntry(r.op), !.acquired = TRUE, !.acquiredAt = ticks]
       ELSE [r EXCEPT !.pc = "ewl_release", !.acquired = FALSE,
                      !.lockResult = "Operation in progress"]]
  /\ UNCHANGED << userState, synthesis, images, activeUsers, ticks, pending >>

\* What the caller does with the OperationResult once executeWithLock has returned.
AfterLock(r) ==
  CASE r.op = "synthesis" -> Finished(r)
    [] r.op = "dev_init" ->
         Finished(Say(r, IF r.lockResult = "success" THEN "WELCOME" ELSE "ERROR_BUSY", 0))
    [] OTHER ->
         IF r.lockResult = "success" /\ r.transitioned
         THEN IF r.hasOther
              THEN Fire(Say(r, "PROCESSING", 0), UploadType(r.op))
              ELSE Finished(Say(r, IF r.op = "character_upload" THEN "REQUEST_CLOTHING"
                                   ELSE "REQUEST_CHARACTER", 0))
         ELSE Finished(Say(r, "ERROR_UPLOAD_FAILED", 0))

\* The finally block: DEL lockKey, whether or not this call acquired the lock.
ewlRelease(s) ==
  LET r == slot[s] IN
  /\ r.pc = "ewl_release"
  /\ lock' = ReleaseLock(r.uid, r.op)
  /\ slot' = [slot EXCEPT ![s] = AfterLock(r)]
  /\ UNCHANGED << userState, synthesis, images, activeUsers, ticks, pending >>

\* ------------------------------------- handleCharacter/ClothingImageUpload
\* fn, first call: saveImage downloads the content and stores the path (HSET, EXPIRE);
\* a failed download throws out of fn.
imgSave(s) ==
  LET r == slot[s] IN
  /\ r.pc = "img_save"
  /\ \E downloaded \in BOOLEAN :
       IF downloaded
       THEN /\ images' = saveImage(r.uid, UploadType(r.op))
            /\ slot' = [slot EXCEPT ![s] = [r EXCEPT !.pc = "img_has_other"]]
       ELSE /\ images' = images
            /\ slot' = [slot EXCEPT ![s] = [r EXCEPT !.pc = "ewl_release",
                          !.fnError = DownloadError, !.lockResult = DownloadError]]
  /\ UNCHANGED << userState, lock, synthesis, activeUsers, ticks, pending >>

\* fn, second call: hasClothing / hasCharacter.
imgHasOther(s) ==
  LET r == slot[s] IN
  /\ r.pc = "img_has_other"
  /\ slot' = [slot EXCEPT ![s] =
       [r EXCEPT !.pc = "img_cas", !.hasOther = hasImage(r.uid, Other(UploadType(r.op)))]]
  /\ UNCHANGED << store, ticks >>

\* fn, last call: the transition out of the awaiting state; fn returns.
imgTransition(s) ==
  LET r == slot[s] IN
  /\ r.pc = "img_cas"
  /\ userState' = transitionUserState(r.uid, UploadExpected(r.op),
                                      UploadTarget(r.op, r.hasOther))
  /\ slot' = [slot EXCEPT ![s] =
       [r EXCEPT !.pc = "ewl_release", !.lockResult = "success",
                 !.transitioned = TransitionTest(r.uid, UploadExpected(r.op))]]
  /\ UNCHANGED << lock, synthesis, images, activeUsers, ticks, pending >>

\* ---------------------------------------------- performBackgroundSynthesis
bgSetProcessing(s) ==
  LET r == slot[s] IN
  /\ r.pc = "bg_set_processing"
  /\ synthesis' = setSynthesisResult(r.uid, "processing", 0, "")
  /\ slot' = [slot EXCEPT ![s] = [r EXCEPT !.pc = "bg_compose"]]
  /\ UNCHANGED << userState, lock, images, activeUsers, ticks, pending >>

\* aiService.synthesizeImages returns a generated image path or throws.
bgCompose(s) ==
  LET r == slot[s] IN
  /\ r.pc = "bg_compose"
  /\ \E o \in {"ok"} \cup ComposeErrors :
       slot' = [slot EXCEPT ![s] = [r EXCEPT !.pc = "bg_set_result", !.outcome = o]]
  /\ UNCHANGED << store, ticks >>

\* The result the task records: completed with the image path, or failed with the message.
ResultGeneric(u, s, outcome) ==
  IF outcome = "ok"
  THEN setSynthesisResult(u, "completed", s, "")
  ELSE setSynthesisResult(u, "failed", 0, "synthesis failed")
ResultOf(u, s, outcome) ==
  IF outcome = "ok"
  THEN setSynthesisResult(u, "completed", s, "")
  ELSE setSynthesisResult(u, "failed", 0, outcome)

bgSetResult(s) ==
  LET r == slot[s] IN
  /\ r.pc = "bg_set_result"
  /\ synthesis' = ResultOf(r.uid, s, r.outcome)
  /\ slot' = [slot EXCEPT ![s] = [r EXCEPT !.pc = "bg_transition"]]
  /\ UNCHANGED << userState, lock, images, activeUsers, ticks, pending >>

bgTransition(s) ==
  LET r == slot[s] IN
  /\ r.pc = "bg_transition"
  /\ userState' = transitionUserState(r.uid, GENERATING_IMAGE, TargetState(r.trigger))
  /\ slot' = [slot EXCEPT ![s] =
       [r EXCEPT !.pc = "ewl_release", !.lockResult = "success",
                 !.transitioned = TransitionTest(r.uid, GENERATING_IMAGE)]]
  /\ UNCHANGED << lock, synthesis, images, activeUsers, ticks, pending >>

\* ----------------------------------------------------- checkSynthesisResult
crGetState(s) ==
  LET r == slot[s] IN
  /\ r.pc = "cr_get_state"
  /\ slot' = [slot EXCEPT ![s] =
       [r EXCEPT !.pc = "cr_get_result", !.obsState = getUserState(r.uid)]]
  /\ UNCHANGED << store, ticks >>

CheckBranchNoState(r, res) ==
  LET q == [r EXCEPT !.obsResult = [res EXCEPT !.ttl = 0]] IN
  IF res.status = "completed" /\ res.imagePath # 0
  THEN [Say(q, "SYNTHESIS_RESULT", res.imagePath) EXCEPT !.pc = "cr_clear"]
  ELSE IF res.status = "failed"
       THEN [Say(q, "ERROR_SYNTHESIS_FAILED", 0) EXCEPT !.pc = "cr_clear"]
  ELSE Finished(Say(q, "STILL_PROCESSING", 0))

\* The branch taken on (currentState, synthesisResult), and the reply it sends.
CheckBranch(r, res) ==
  LET q == [r EXCEPT !.obsResult = [res EXCEPT !.ttl = 0]] IN
  IF r.obsState = GENERATING_IMAGE THEN Finished(Say(q, "STILL_PROCESSING", 0))
  ELSE IF res.status = "completed" /\ res.imagePath # 0
       THEN [Say(q, "SYNTHESIS_RESULT", res.imagePath) EXCEPT !.pc = "cr_clear"]
  ELSE IF res.status = "failed"
       THEN [Say(q, "ERROR_SYNTHESIS_FAILED", 0) EXCEPT !.pc = "cr_clear"]
  ELSE Finished(Say(q, "ERROR_NO_ACTIVE_SYNTHESIS", 0))

crGetResult(s) ==
  LET r == slot[s] IN
  /\ r.pc = "cr_get_result"
  /\ slot' = [slot EXCEPT ![s] = CheckBranch(r, synthesis[r.uid])]
  /\ UNCHANGED << store, ticks >>

crClear(s) ==
  LET r == slot[s] IN
  /\ r.pc = "cr_clear"
  /\ synthesis' = clearSynthesisResult(r.uid)
  /\ slot' = [slot EXCEPT ![s] = [r EXCEPT !.pc = "cr_set_idle"]]
  /\ UNCHANGED << userState, lock, images, activeUsers, ticks, pending >>

crSetIdle(s) ==
  LET r == slot[s] IN
  /\ r.pc = "cr_set_idle"
  /\ userState' = setUserState(r.uid, IDLE)
  /\ activeUsers' = activeUsers \cup {r.uid}
  /\ slot' = [slot EXCEPT ![s] = Finished(r)]
  /\ UNCHANGED << lock, synthesis, images, ticks, pending >>

\* ---------------------------------------------------------- regenerateImage
rgHasCharacter(s) ==
  LET r == slot[s] IN
  /\ r.pc = "rg_has_character"
  /\ slot' = [slot EXCEPT ![s] =
       [r EXCEPT !.pc = "rg_has_clothing", !.hasChar = hasImage(r.uid, "character")]]
  /\ UNCHANGED << store, ticks >>

\* hasBothImages is false: an error reply, then startPassiveFlow.
rgHasClothing(s) ==
  LET r == slot[s] IN
  /\ r.pc = "rg_has_clothing"
  /\ slot' = [slot EXCEPT ![s] =
       IF r.hasChar /\ hasImage(r.uid, "clothing")
       THEN [r EXCEPT !.pc = "rg_get_state"]
       ELSE [Say(r, "ERROR_UPLOAD_BOTH_FIRST", 0) EXCEPT !.pc = "start_cas"]]
  /\ UNCHANGED << store, ticks >>

\* The trigger of the task that regenerates, from the state read.
LastUploadedClothing(st) == "clothing"
lastUploadedType(st) ==
  IF st = PASSIVE_AWAITING_RESULT_CHECK_CHARACTER THEN "character" ELSE "clothing"

rgGetState(s) ==
  LET r == slot[s]
      st == getUserState(r.uid)
      allowed == st \in { IDLE, PASSIVE_AWAITING_RESULT_CHECK_CHARACTER,
                          PASSIVE_AWAITING_RESULT_CHECK_CLOTHING }
  IN
  /\ r.pc = "rg_get_state"
  /\ slot' = [slot EXCEPT ![s] =
       IF allowed
       THEN [r EXCEPT !.pc = "rg_set", !.obsState = st,
                      !.trigger = lastUploadedType(st)]
       ELSE Finished(Say([r EXCEPT !.obsState = st], "ERROR_CANNOT_REGENERATE", 0))]
  /\ UNCHANGED << store, ticks >>

rgSet(s) ==
  LET r == slot[s] IN
  /\ r.pc = "rg_set"
  /\ userState' = setUserState(r.uid, GENERATING_IMAGE)
  /\ activeUsers' = activeUsers \cup {r.uid}
  /\ slot' = [slot EXCEPT ![s] = Fire(Say(r, "PROCESSING", 0), r.trigger)]
  /\ UNCHANGED << lock, synthesis, images, ticks, pending >>

\* ------------------------------------------- REUPLOAD_CHARACTER / _CLOTHING
ReuploadOther(e) == IF e = "REUPLOAD_CHARACTER" THEN "clothing" ELSE "character"
ReuploadType(e) == IF e = "REUPLOAD_CHARACTER" THEN "character" ELSE "clothing"

\* In a result-check state the stored image is cleared first.
reuploadClear(s) ==
  LET r == slot[s] IN
  /\ r.pc = "ru_clear"
  /\ images' = clearImage(r.uid, ReuploadType(r.ev))
  /\ slot' = [slot EXCEPT ![s] = [r EXCEPT !.pc = "ru_set"]]
  /\ UNCHANGED << userState, lock, synthesis, activeUsers, ticks, pending >>

reuploadSet(s) ==
  LET r == slot[s] IN
  /\ r.pc = "ru_set"
  /\ userState' = setUserState(r.uid, IF r.ev = "REUPLOAD_CHARACTER"
                                      THEN PASSIVE_AWAITING_CHARACTER
                                      ELSE PASSIVE_AWAITING_CLOTHING)
  /\ activeUsers' = activeUsers \cup {r.uid}
  /\ slot' = [slot EXCEPT ![s] =
       Finished(Say(r, IF r.ev = "REUPLOAD_CHARACTER" THEN "REQUEST_REUPLOAD_CHARACTER"
                       ELSE "REQUEST_REUPLOAD_CLOTHING", 0))]
  /\ UNCHANGED << lock, synthesis, images, ticks, pending >>

\* -------------------------------- clearCharacterImage / clearClothingImage
\* In passive_awaiting_clothing, CLEAR_CHARACTER goes on to startPassiveFlow.
clearCharacterImage(s) ==
  LET r == slot[s]
      q == Say(r, "CHARACTER_CLEARED", 0)
  IN
  /\ r.pc = "clear_character"
  /\ images' = clearImage(r.uid, "character")
  /\ slot' = [slot EXCEPT ![s] =
       IF r.cur = PASSIVE_AWAITING_CLOTHING THEN [q EXCEPT !.pc = "start_cas"]
       ELSE Finished(q)]
  /\ UNCHANGED << userState, lock, synthesis, activeUsers, ticks, pending >>

clearClothingImage(s) ==
  LET r == slot[s] IN
  /\ r.pc = "clear_clothing"
  /\ images' = clearImage(r.uid, "clothing")
  /\ slot' = [slot EXCEPT ![s] = Finished(Say(r, "CLOTHING_CLEARED", 0))]
  /\ UNCHANGED << userState, lock, synthesis, activeUsers, ticks, pending >>

\* ------------------------------------------------------- clearAllUserData
\* Redis key names, split at the colons.
StateKey(u) == << "user", "state", u >>
LockKey(u, op) == << "user", "lock", u, op >>
SynthesisKey(u) == << "user", "synthesis", u >>
ImagesKey(u) == << "user", u, "images" >>

ExistingKeys ==
  {StateKey(u) : u \in {v \in Users : userState[v].val # NIL}}
  \cup {LockKey(p[1], p[2]) : p \in {q \in Users \X Operations : lock[q[1]][q[2]].held}}
  \cup {SynthesisKey(u) : u \in {v \in Users : synthesis[v].status # NIL}}
  \cup {ImagesKey(u) : u \in {v \in Users : images[v].fields # {}}}

\* key.includes(excludePattern), the pattern split at the colons like the keys.
Includes(k, pat) ==
  \E i \in 1..Len(k) : i + Len(pat) - 1 <= Len(k) /\ SubSeq(k, i, i + Len(pat) - 1) = pat

\* SCAN MATCH *<userId>*: the keys that have the characters of the id somewhere
\* in them.  The fixed parts of a key are lower-case words and an id starts
\* with "U", so the id can only be found inside the id part of the key.
scanKeys(u) ==
  {k \in ExistingKeys :
     \E i \in 1..Len(k) : k[i] \in Users /\ Includes(IdText(k[i]), IdText(u))}

DevInitExclude == { << "lock", "dev_init" >> }

KeysToDelete(keys, excludePatterns) ==
  {k \in keys : ~ \E pat \in excludePatterns : Includes(k, pat)}

\* pipeline: DEL keys..., SREM active_users userId; skipped when there is no key.
DeleteKeys(u, K) ==
  /\ userState' = [v \in Users |-> IF StateKey(v) \in K THEN AbsentState ELSE userState[v]]
  /\ lock' = [v \in Users |-> [op \in Operations |->
                IF LockKey(v, op) \in K THEN AbsentLock ELSE lock[v][op]]]
  /\ synthesis' = [v \in Users |->
                IF SynthesisKey(v) \in K THEN AbsentResult ELSE synthesis[v]]
  /\ images' = [v \in Users |-> IF ImagesKey(v) \in K THEN AbsentImages ELSE images[v]]
  /\ activeUsers' = IF K = {} THEN activeUsers ELSE activeUsers \ {u}

\* ------------------------------------ handleClearAllCommand, handleDevInit
\* Both clear the images, then all user data, then set the state; DEV_INIT does
\* it as the fn of executeWithLock("dev_init"), excluding "lock:dev_init".
caImages(s) ==
  LET r == slot[s] IN
  /\ r.pc = "ca_images"
  /\ images' = clearAll(r.uid)
  /\ slot' = [slot EXCEPT ![s] = [r EXCEPT !.pc = "ca_scan"]]
  /\ UNCHANGED << userState, lock, synthesis, activeUsers, ticks, pending >>

caScan(s) ==
  LET r == slot[s] IN
  /\ r.pc = "ca_scan"
  /\ slot' = [slot EXCEPT ![s] = [r EXCEPT !.pc = "ca_del",
       !.keys = KeysToDelete(scanKeys(r.uid),
                             IF r.ev = "DEV_INIT" THEN DevInitExclude ELSE {})]]
  /\ UNCHANGED << store, ticks >>

caDelete(s) ==
  LET r == slot[s] IN
  /\ r.pc = "ca_del"
  /\ DeleteKeys(r.uid, r.keys)
  /\ slot' = [slot EXCEPT ![s] = [r EXCEPT !.pc = "ca_set", !.keys = {}]]
  /\ UNCHANGED << ticks, pending >>

caSet(s) ==
  LET r == slot[s] IN
  /\ r.pc = "ca_set"
  /\ userState' = setUserState(r.uid, IF r.ev = "DEV_INIT" THEN IDLE
                                      ELSE PASSIVE_AWAITING_CHARACTER)
  /\ activeUsers' = activeUsers \cup {r.uid}
  /\ slot' = [slot EXCEPT ![s] =
       IF r.ev = "DEV_INIT"
       THEN [r EXCEPT !.pc = "ewl_release", !.lockResult = "success"]
       ELSE Finished(Say(r, "ALL_CLEARED_REQUEST_CHARACTER", 0))]
  /\ UNCHANGED << lock, synthesis, images, ticks, pending >>

\* ------------------------------- EventRouterService, FlowOrchestratorService
\* An inbound event as the orchestrator receives it: any field may be missing
\* or empty.  A text is given by the command it parses to.
MISSING == ""

InboundEvents ==
  [ type : { "FOLLOW", "TEXT_MESSAGE", "IMAGE_MESSAGE", MISSING },
    userId : { "U1", MISSING },
    replyToken : { "token", MISSING },
    text : { "START_FLOW", "UNKNOWN", MISSING },
    imageId : { "image", MISSING } ]

validateEvent(event) ==
  /\ event.type # MISSING /\ event.userId # MISSING /\ event.replyToken # MISSING
  /\ event.type = "TEXT_MESSAGE" => event.text # MISSING
  /\ event.type = "IMAGE_MESSAGE" => event.imageId # MISSING

\* The switch of routeEvent on the type: the event as its handler takes it.
RouteByText(event) == event.text
routeEvent(event) ==
  CASE event.type = "FOLLOW" -> "FOLLOW"
    [] event.type = "TEXT_MESSAGE" -> event.text
    [] OTHER -> "IMAGE_MESSAGE"

\* handleFollow, ImageMessageHandlerService.handleImageMessage and
\* TextMessageHandlerService.handleTextMessage on the current state, for the
\* commands of InboundEvents.
orchestratorDispatch(r) ==
  LET e == r.ev
      st == r.cur
  IN
  CASE e = "FOLLOW" -> [r EXCEPT !.pc = "follow_set"]
    [] e = "IMAGE_MESSAGE" /\ st = PASSIVE_AWAITING_CHARACTER ->
         [r EXCEPT !.pc = "ewl_acquire", !.op = "character_upload"]
    [] e = "IMAGE_MESSAGE" /\ st = PASSIVE_AWAITING_CLOTHING ->
         [r EXCEPT !.pc = "ewl_acquire", !.op = "clothing_upload"]
    [] e = "IMAGE_MESSAGE" /\ st = IDLE -> Finished(Say(r, "WELCOME", 0))
    [] e = "IMAGE_MESSAGE" -> Finished(Say(r, "ERROR_WRONG_STATE", 0))
    [] st = IDLE /\ e = "START_FLOW" -> [r EXCEPT !.pc = "orch_start_set"]
    [] st = IDLE -> Finished(Say(r, "WELCOME", 0))
    [] st \in { PASSIVE_AWAITING_CHARACTER, PASSIVE_AWAITING_CLOTHING } ->
         Finished(Say(r, "ERROR_EXPECTING_IMAGE", 0))
    [] st = GENERATING_IMAGE -> Finished(Say(r, "PROCESSING", 0))
    [] OTHER -> Finished(Say(r, "STILL_PROCESSING", 0))

\* FlowOrchestratorService.processEvent: an invalid event throws before the
\* state is read and the catch block sends the default error reply; a valid
\* one is routed with the state read.
orchestratorProcessEvent(s, event) ==
  /\ Free(s)
  /\ \A t \in Slots : Free(t) => s <= t
  /\ slot' = [slot EXCEPT ![s] =
       IF ~validateEvent(event)
       THEN Finished(Say(IdleSlot, "ERROR_DEFAULT", 0))
       ELSE orchestratorDispatch([IdleSlot EXCEPT !.uid = event.userId,
                                                  !.ev = routeEvent(event),
                                                  !.cur = getUserState(event.userId)])]
  /\ UNCHANGED << store, ticks >>

\* FlowOrchestratorService.startPassiveFlow: setUserState, then the prompt.
orchestratorStartPassiveFlow(s) ==
  LET r == slot[s] IN
  /\ r.pc = "orch_start_set"
  /\ userState' = setUserState(r.uid, PASSIVE_AWAITING_CHARACTER)
  /\ activeUsers' = activeUsers \cup {r.uid}
  /\ slot' = [slot EXCEPT ![s] = Finished(Say(r, "REQUEST_CHARACTER", 0))]
  /\ UNCHANGED << lock, synthesis, images, ticks, pending >>

\* FlowOrchestratorService.performBackgroundSynthesis: executeWithLock on
\* "synthesis" around a fn that catches its own errors.
orchestratorAcquire(s) ==
  LET r == slot[s]
      got == LockAcquirable(r.uid, r.op)
  IN
  /\ r.pc = "ewl_acquire" /\ r.op = "synthesis"
  /\ lock' = AcquireLock(r.uid, r.op)
  /\ slot' = [slot EXCEPT ![s] =
       IF got THEN [r EXCEPT !.pc = "orch_images", !.acquired = TRUE, !.acquiredAt = ticks]
       ELSE [r EXCEPT !.pc = "ewl_release", !.acquired = FALSE,
                      !.lockResult = "Operation in progress"]]
  /\ UNCHANGED << userState, synthesis, images, activeUsers, ticks, pending >>

\* getImagePath of both images; a missing one throws into the catch block.
orchestratorImages(s) ==
  LET r == slot[s] IN
  /\ r.pc = "orch_images"
  /\ slot' = [slot EXCEPT ![s] =
       IF hasImage(r.uid, "character") /\ hasImage(r.uid, "clothing")
       THEN [r EXCEPT !.pc = "orch_compose"]
       ELSE [r EXCEPT !.pc = "orch_set_result",
                      !.outcome = "Missing required images for synthesis"]]
  /\ UNCHANGED << store, ticks >>

orchestratorCompose(s) ==
  LET r == slot[s] IN
  /\ r.pc = "orch_compose"
  /\ \E o \in {"ok"} \cup ComposeErrors :
       slot' = [slot EXCEPT ![s] = [r EXCEPT !.pc = "orch_set_result", !.outcome = o]]
  /\ UNCHANGED << store, ticks >>

orchestratorSetResult(s) ==
  LET r == slot[s] IN
  /\ r.pc = "orch_set_result"
  /\ synthesis' = ResultOf(r.uid, s, r.outcome)
  /\ slot' = [slot EXCEPT ![s] = [r EXCEPT !.pc = "orch_final_state"]]
  /\ UNCHANGED << userState, lock, images, activeUsers, ticks, pending >>

\* On success transitionUserState from generating to the result-check state;
\* in the catch block setUserState(IDLE).  fn returns in both cases.
orchestratorFinalState(s) ==
  LET r == slot[s] IN
  /\ r.pc = "orch_final_state"
  /\ IF r.outcome = "ok"
     THEN /\ userState' = transitionUserState(r.uid, GENERATING_IMAGE, TargetState(r.trigger))
          /\ activeUsers' = activeUsers
     ELSE /\ userState' = setUserState(r.uid, IDLE)
          /\ activeUsers' = activeUsers \cup {r.uid}
  /\ slot' = [slot EXCEPT ![s] =
       [r EXCEPT !.pc = "ewl_release", !.lockResult = "success",
                 !.transitioned = r.outcome = "ok" /\ TransitionTest(r.uid, GENERATING_IMAGE)]]
  /\ UNCHANGED << lock, synthesis, images, ticks, pending >>

\* ------------------------------------- CommandService (active flow, legacy)
\* The older command handler keeps an unprompted image as a pending record
\* until the user says whether it shows the character or the clothing.
WAITING_FOR_CHARACTER == "waiting_for_character"
WAITING_FOR_CLOTHING == "waiting_for_clothing"
WAITING_FOR_IMAGE_TYPE == "waiting_for_image_type"

\* The texts of the command table that take part, and any other text.
TYPE_CHARACTER == "TYPE_CHARACTER"
TYPE_CLOTHING == "TYPE_CLOTHING"
HELP == "HELP"
CommandEvents == { "IMAGE_MESSAGE", TYPE_CHARACTER, TYPE_CLOTHING, HELP, "UNKNOWN" }

SelectedType(e) == IF e = TYPE_CHARACTER THEN "character" ELSE "clothing"

commandSetUserState(u, st) == [userState EXCEPT ![u] = [val |-> st, ttl |-> STATE_TIMEOUT]]

setPendingImage(u, imageId) ==
  [pending EXCEPT ![u] = [imageId |-> imageId, ttl |-> PENDING_TIMEOUT]]
getPendingImage(u) == pending[u]
clearPendingImage(u) == [pending EXCEPT ![u] = AbsentPending]

\* handleImageMessage and handleCommand: the first store call of each handler.
\* An image sent while a character or clothing image is prompted for takes the
\* passive branch of handleImageMessage, which is not described here.
commandReceive(s, u, e) ==
  /\ Free(s)
  /\ \A t \in Slots : Free(t) => s <= t
  /\ e = "IMAGE_MESSAGE" =>
       getUserState(u) \notin { WAITING_FOR_CHARACTER, WAITING_FOR_CLOTHING }
  /\ slot' = [slot EXCEPT ![s] =
       [IdleSlot EXCEPT !.uid = u, !.ev = e, !.cur = getUserState(u),
          !.pc = CASE e = "IMAGE_MESSAGE" -> "pending_set"
                   [] e \in { TYPE_CHARACTER, TYPE_CLOTHING } -> "type_get_pending"
                   [] e = HELP -> "help_set"
                   [] OTHER -> "default_get_state"]]
  /\ UNCHANGED << store, ticks >>

\* CommandService.setPendingImage: the record, then the state, then the inquiry.
pendingSet(s) ==
  LET r == slot[s] IN
  /\ r.pc = "pending_set"
  /\ pending' = setPendingImage(r.uid, "image")
  /\ slot' = [slot EXCEPT ![s] = [r EXCEPT !.pc = "pending_state"]]
  /\ UNCHANGED << userState, lock, synthesis, images, activeUsers, ticks >>

pendingState(s) ==
  LET r == slot[s] IN
  /\ r.pc = "pending_state"
  /\ userState' = commandSetUserState(r.uid, WAITING_FOR_IMAGE_TYPE)
  /\ slot' = [slot EXCEPT ![s] = Finished(Say(r, "IMAGE_TYPE_INQUIRY", 0))]
  /\ UNCHANGED << lock, synthesis, images, activeUsers, ticks, pending >>

\* handleImageTypeSelection
typeGetPending(s) ==
  LET r == slot[s] IN
  /\ r.pc = "type_get_pending"
  /\ slot' = [slot EXCEPT ![s] =
       IF getPendingImage(r.uid).imageId = NIL
       THEN Finished(Say(r, "ERROR_NO_PENDING_IMAGE", 0))
       ELSE [r EXCEPT !.pc = "type_has_opposite"]]
  /\ UNCHANGED << store, ticks >>

typeHasOpposite(s) ==
  LET r == slot[s] IN
  /\ r.pc = "type_has_opposite"
  /\ slot' = [slot EXCEPT ![s] =
       IF hasImage(r.uid, Other(SelectedType(r.ev)))
       THEN Finished(Say(r, "UPDATE_INQUIRY", 0))
       ELSE [r EXCEPT !.pc = "type_save"]]
  /\ UNCHANGED << store, ticks >>

typeSave(s) ==
  LET r == slot[s] IN
  /\ r.pc = "type_save"
  /\ \/ /\ images' = saveImage(r.uid, SelectedType(r.ev))
        /\ slot' = [slot EXCEPT ![s] = [r EXCEPT !.pc = "type_set_idle"]]
     \/ /\ images' = images
        /\ slot' = [slot EXCEPT ![s] = Finished(Say(r, "ERROR_SAVE_FAILED", 0))]
  /\ UNCHANGED << userState, lock, synthesis, activeUsers, ticks, pending >>

typeSetIdle(s) ==
  LET r == slot[s] IN
  /\ r.pc = "type_set_idle"
  /\ userState' = commandSetUserState(r.uid, IDLE)
  /\ slot' = [slot EXCEPT ![s] = [r EXCEPT !.pc = "type_clear_pending"]]
  /\ UNCHANGED << lock, synthesis, images, activeUsers, ticks, pending >>

typeClearPending(s) ==
  LET r == slot[s] IN
  /\ r.pc = "type_clear_pending"
  /\ pending' = clearPendingImage(r.uid)
  /\ slot' = [slot EXCEPT ![s] = [Say(r, "IMAGE_RECEIVED", 0) EXCEPT !.pc = "type_after_save"]]
  /\ UNCHANGED << userState, lock, synthesis, images, activeUsers, ticks >>

\* With the other image there, synthesizeImages follows (not described here).
typeAfterSave(s) ==
  LET r == slot[s] IN
  /\ r.pc = "type_after_save"
  /\ slot' = [slot EXCEPT ![s] =
       IF hasImage(r.uid, Other(SelectedType(r.ev)))
       THEN [r EXCEPT !.pc = "synthesize_images"]
       ELSE Finished(Say(r, "WAITING_FOR_OTHER", 0))]
  /\ UNCHANGED << store, ticks >>

\* handleHelp
helpSet(s) ==
  LET r == slot[s] IN
  /\ r.pc = "help_set"
  /\ userState' = commandSetUserState(r.uid, IDLE)
  /\ slot' = [slot EXCEPT ![s] = Finished(Say(r, "HELP", 0))]
  /\ UNCHANGED << lock, synthesis, images, activeUsers, ticks, pending >>

\* handleDefault
defaultGetState(s) ==
  LET r == slot[s] IN
  /\ r.pc = "default_get_state"
  /\ slot' = [slot EXCEPT ![s] =
       IF getUserState(r.uid) = WAITING_FOR_IMAGE_TYPE
       THEN Finished(Say(r, "IMAGE_TYPE_INQUIRY", 0))
       ELSE [r EXCEPT !.pc = "default_set_idle"]]
  /\ UNCHANGED << store, ticks >>

defaultSetIdle(s) ==
  LET r == slot[s] IN
  /\ r.pc = "default_set_idle"
  /\ userState' = commandSetUserState(r.uid, IDLE)
  /\ slot' = [slot EXCEPT ![s] = Finished(Say(r, "IMAGE_STATUS", 0))]
  /\ UNCHANGED << lock, synthesis, images, activeUsers, ticks, pending >>

\* ------------------------------------------------------------------- time
\* The clock advances by d seconds: every key loses d of its TTL and is gone
\* once none is left.
Aged(e, d, absent) == IF e.ttl > d THEN [e EXCEPT !.ttl = @ - d] ELSE absent

TickSizes == { LOCK_TTL \div 2, LOCK_TTL, SYNTHESIS_TTL }

Tick(d) ==
  /\ ticks < MaxTicks
  /\ ticks' = ticks + 1
  /\ userState' = [u \in Users |-> Aged(userState[u], d, AbsentState)]
  /\ lock' = [u \in Users |-> [op \in Operations |-> Aged(lock[u][op], d, AbsentLock)]]
  /\ synthesis' = [u \in Users |-> Aged(synthesis[u], d, AbsentResult)]
  /\ images' = [u \in Users |-> Aged(images[u], d, AbsentImages)]
  /\ pending' = [u \in Users |-> Aged(pending[u], d, AbsentPending)]
  /\ UNCHANGED << activeUsers, slot >>

\* ------------------------------------------------------------------- specs
SpecUsers == { "U1" }

Step(s) ==
  \/ handleFollow(s) \/ startPassiveFlow(s)
  \/ ewlAcquire(s) \/ ewlRelease(s)
  \/ imgSave(s) \/ imgHasOther(s) \/ imgTransition(s)
  \/ bgSetProcessing(s) \/ bgCompose(s) \/ bgSetResult(s) \/ bgTransition(s)
  \/ crGetState(s) \/ crGetResult(s) \/ crClear(s) \/ crSetIdle(s)
  \/ rgHasCharacter(s) \/ rgHasClothing(s) \/ rgGetState(s) \/ rgSet(s)
  \/ reuploadClear(s) \/ reuploadSet(s)
  \/ clearCharacterImage(s) \/ clearClothingImage(s)
  \/ caImages(s) \/ caScan(s) \/ caDelete(s) \/ caSet(s)

\* Every event of the flow, delivered at any time and in any number.
Next ==
  \E s \in Slots :
    \/ \E u \in SpecUsers, e \in FlowEvent : Receive(s, u, e)
    \/ Step(s)

Spec == Init /\ [][Next]_vars

\* The upload flow of a fresh user: START and image events only, delivered at
\* any time and in any number (duplicates, concurrent deliveries).
UploadEvents == { "START_FLOW", "IMAGE_MESSAGE" }

UploadStep(s) ==
  \/ startPassiveFlow(s)
  \/ ewlAcquire(s) \/ ewlRelease(s)
  \/ imgSave(s) \/ imgHasOther(s) \/ imgTransition(s)
  \/ bgSetProcessing(s) \/ bgCompose(s) \/ bgSetResult(s) \/ bgTransition(s)

NextUpload ==
  \E s \in Slots :
    \/ \E u \in SpecUsers, e \in UploadEvents : Receive(s, u, e)
    \/ UploadStep(s)

SpecUpload == Init /\ [][NextUpload]_vars

\* The happy path: START, images and CHECK_RESULT.
HappyEvents == { "START_FLOW", "IMAGE_MESSAGE", "CHECK_RESULT" }

HappyStep(s) ==
  \/ UploadStep(s)
  \/ crGetState(s) \/ crGetResult(s) \/ crClear(s) \/ crSetIdle(s)

\* No handler is running (background tasks may be).
Quiet == \A t \in Slots : Free(t) \/ slot[t].handlerDone

\* The happy path with the events handled one after the other, each delivered
\* when the handler of the one before has returned; background tasks run on.
NextHappy ==
  \E s \in Slots :
    \/ \E u \in SpecUsers, e \in HappyEvents : Quiet /\ Receive(s, u, e)
    \/ HappyStep(s)

SpecHappy == Init /\ [][NextHappy]_vars

\* The upload flow with time passing: every entry ages, and expires when its
\* time to live has elapsed.
NextTTL ==
  \/ NextUpload
  \/ \E d \in TickSizes : Tick(d)

SpecTTL == Init /\ [][NextTTL]_vars

\* The upload flow with REGENERATE, under the scheduling of the event loop:
\* every step of a handler or task that can be taken is taken in the end (the
\* store answers, the composition terminates); the user need not send anything.
LiveEvents == { "START_FLOW", "IMAGE_MESSAGE", "REGENERATE" }

LiveStep(s) ==
  \/ UploadStep(s)
  \/ rgHasCharacter(s) \/ rgHasClothing(s) \/ rgGetState(s) \/ rgSet(s)

NextLive ==
  \E s \in Slots :
    \/ \E u \in SpecUsers, e \in LiveEvents : Receive(s, u, e)
    \/ LiveStep(s)

SpecLive == Init /\ [][NextLive]_vars /\ \A s \in Slots : WF_vars(LiveStep(s))

\* The same flow when the composition need not return: every step is taken in
\* the end except the call of the external synthesis.
DetachedStep(s) ==
  \/ startPassiveFlow(s)
  \/ ewlAcquire(s) \/ ewlRelease(s)
  \/ imgSave(s) \/ imgHasOther(s) \/ imgTransition(s)
  \/ bgSetProcessing(s) \/ bgSetResult(s) \/ bgTransition(s)
  \/ rgHasCharacter(s) \/ rgHasClothing(s) \/ rgGetState(s) \/ rgSet(s)

SpecDetached == Init /\ [][NextLive]_vars /\ \A s \in Slots : WF_vars(DetachedStep(s))

\* The upload flow with CLEAR_ALL, the events delivered at any time.
ClearEvents == { "START_FLOW", "IMAGE_MESSAGE", "CLEAR_ALL" }

ClearStep(s) ==
  \/ UploadStep(s)
  \/ caImages(s) \/ caScan(s) \/ caDelete(s) \/ caSet(s)

NextClear ==
  \E s \in Slots :
    \/ \E u \in SpecUsers, e \in ClearEvents : Receive(s, u, e)
    \/ ClearStep(s)

SpecClear == Init /\ [][NextClear]_vars

\* The flow with CHECK_RESULT and REGENERATE, the events delivered at any time.
RegenEvents == { "START_FLOW", "IMAGE_MESSAGE", "CHECK_RESULT", "REGENERATE" }

RegenStep(s) ==
  \/ HappyStep(s)
  \/ rgHasCharacter(s) \/ rgHasClothing(s) \/ rgGetState(s) \/ rgSet(s)

NextRegen ==
  \E s \in Slots :
    \/ \E u \in SpecUsers, e \in RegenEvents : Receive(s, u, e)
    \/ RegenStep(s)

SpecRegen == Init /\ [][NextRegen]_vars

\* The happy path, the events handled one after the other, with time passing.
NextExpiry ==
  \/ NextHappy
  \/ \E d \in TickSizes : Tick(d)

SpecExpiry == Init /\ [][NextExpiry]_vars

\* Several users at once: START, CLEAR_ALL and DEV_INIT of any user, delivered
\* at any time.
PairEvents == { "START_FLOW", "CLEAR_ALL", "DEV_INIT" }

PairStep(s) ==
  \/ startPassiveFlow(s)
  \/ ewlAcquire(s) \/ ewlRelease(s)
  \/ caImages(s) \/ caScan(s) \/ caDelete(s) \/ caSet(s)

NextPair ==
  \E s \in Slots :
    \/ \E u \in Users, e \in PairEvents : Receive(s, u, e)
    \/ PairStep(s)

SpecPair == Init /\ [][NextPair]_vars

\* The upload flow with a store that may fail to answer the first call of an event.
NextOutage ==
  \/ NextUpload
  \/ \E s \in Slots, u \in SpecUsers, e \in UploadEvents : getUserStateThrows(s, u, e)

SpecOutage == Init /\ [][NextOutage]_vars

\* The flow with CHECK_RESULT and REGENERATE, the events handled one after the
\* other; background tasks run on.
NextRegenSeq ==
  \E s \in Slots :
    \/ \E u \in SpecUsers, e \in RegenEvents : Quiet /\ Receive(s, u, e)
    \/ RegenStep(s)

SpecRegenSeq == Init /\ [][NextRegenSeq]_vars

\* The upload flow with the two re-upload commands, the events handled one
\* after the other; background tasks run on.
ReuploadEvents == { "START_FLOW", "IMAGE_MESSAGE", "REUPLOAD_CHARACTER", "REUPLOAD_CLOTHING" }

ReuploadStep(s) == UploadStep(s) \/ reuploadClear(s) \/ reuploadSet(s)

NextReupload ==
  \E s \in Slots :
    \/ \E u \in SpecUsers, e \in ReuploadEvents : Quiet /\ Receive(s, u, e)
    \/ ReuploadStep(s)

SpecReupload == Init /\ [][NextReupload]_vars

\* DEV_INIT alone, delivered at any time and in any number, after a START.
InitEvents == { "START_FLOW", "DEV_INIT" }

NextDevInit ==
  \E s \in Slots :
    \/ \E u \in SpecUsers, e \in InitEvents : Receive(s, u, e)
    \/ PairStep(s)

SpecDevInit == Init /\ [][NextDevInit]_vars

\* The orchestrator up to the first upload: events of every shape, valid or
\* not, delivered at any time; no image is sent while the clothing is awaited.
RouterStep(s) ==
  \/ handleFollow(s) \/ orchestratorStartPassiveFlow(s)
  \/ ewlAcquire(s) \/ ewlRelease(s)
  \/ imgSave(s) \/ imgHasOther(s) \/ imgTransition(s)

NextRouter ==
  \E s \in Slots :
    \/ \E event \in InboundEvents :
         /\ ( validateEvent(event) /\ event.type = "IMAGE_MESSAGE" ) =>
              getUserState(event.userId) # PASSIVE_AWAITING_CLOTHING
         /\ orchestratorProcessEvent(s, event)
    \/ RouterStep(s)

SpecRouter == Init /\ [][NextRouter]_vars

\* The upload flow with CLEAR_CHARACTER, the events handled one after the other.
ClearCharacterEvents == { "START_FLOW", "IMAGE_MESSAGE", "CLEAR_CHARACTER" }

ClearCharacterStep(s) == UploadStep(s) \/ clearCharacterImage(s)

NextClearCharacter ==
  \E s \in Slots :
    \/ \E u \in SpecUsers, e \in ClearCharacterEvents : Quiet /\ Receive(s, u, e)
    \/ ClearCharacterStep(s)

SpecClearCharacter == Init /\ [][NextClearCharacter]_vars

\* The orchestrator with its background task: follow, start and image events
\* delivered at any time.
OrchestratedStep(s) ==
  \/ handleFollow(s) \/ orchestratorStartPassiveFlow(s)
  \/ ( slot[s].op # "synthesis" /\ ewlAcquire(s) ) \/ ewlRelease(s)
  \/ imgSave(s) \/ imgHasOther(s) \/ imgTransition(s)
  \/ orchestratorAcquire(s) \/ orchestratorImages(s) \/ orchestratorCompose(s)
  \/ orchestratorSetResult(s) \/ orchestratorFinalState(s)

NextOrchestrated ==
  \E s \in Slots :
    \/ \E event \in InboundEvents : validateEvent(event) /\ orchestratorProcessEvent(s, event)
    \/ OrchestratedStep(s)

SpecOrchestrated == Init /\ [][NextOrchestrated]_vars

\* The active flow of the legacy CommandService, the events handled one after
\* the other, with time passing.
CommandStep(s) ==
  \/ pendingSet(s) \/ pendingState(s)
  \/ typeGetPending(s) \/ typeHasOpposite(s) \/ typeSave(s)
  \/ typeSetIdle(s) \/ typeClearPending(s) \/ typeAfterSave(s)
  \/ helpSet(s)
  \/ defaultGetState(s) \/ defaultSetIdle(s)

NextCommand ==
  \/ \E s \in Slots :
       \/ \E u \in SpecUsers, e \in CommandEvents : Quiet /\ commandReceive(s, u, e)
       \/ CommandStep(s)
  \/ \E d \in { PENDING_TIMEOUT, STATE_TIMEOUT } : Tick(d)

SpecCommand == Init /\ [][NextCommand]_vars

\* ============================================================== properties
\* The steps that call transitionUserState, with the arguments of each call.
CasPcs == { "start_cas", "img_cas", "bg_transition" }
CasStep(s) == slot[s].pc \in CasPcs /\ slot'[s].pc # slot[s].pc
CasExpected(r) ==
  CASE r.pc = "start_cas" -> IDLE
    [] r.pc = "img_cas" -> UploadExpected(r.op)
    [] OTHER -> GENERATING_IMAGE
CasNew(r) ==
  CASE r.pc = "start_cas" -> PASSIVE_AWAITING_CHARACTER
    [] r.pc = "img_cas" -> UploadTarget(r.op, r.hasOther)
    [] OTHER -> TargetState(r.trigger)
Stored(u) == IF userState[u].val = NIL THEN IDLE ELSE userState[u].val

\* C1: a call of transitionUserState is one step; it returns true exactly when
\* the stored state (an absent key counting as idle) equals the expected one,
\* and then the key holds the new state with the full time to live; otherwise
\* it returns false and the key keeps its value and its remaining time to live.
C1_AtomicTransition ==
  [][\A s \in Slots : CasStep(s) =>
       LET r == slot[s]
           ok == Stored(r.uid) = CasExpected(r)
       IN /\ slot'[s].transitioned = ok
          /\ ok => userState'[r.uid] = [val |-> CasNew(r), ttl |-> SYNTHESIS_TTL]
          /\ ~ok => userState'[r.uid] = userState[r.uid]
          /\ \A v \in Users \ {r.uid} : userState'[v] = userState[v]]_vars

\* A transition has failed on a key whose time to live is partly used up, and
\* another has succeeded.
C1_Witness ==
  /\ ticks > 0
  /\ userState["U1"].val # NIL
  /\ userState["U1"].ttl < SYNTHESIS_TTL
  /\ \E s, t \in Slots :
       /\ slot[s].pc = "done" /\ ~slot[s].transitioned
       /\ slot[s].replies = << Reply("ERROR_CANNOT_START", 0) >>
       /\ slot[t].pc = "ewl_release" /\ slot[t].transitioned

InFn(s) ==
  /\ slot[s].acquired
  /\ slot[s].pc \notin { "idle", "done", "ewl_acquire", "ewl_release" }

\* C3: a lock has at most one holder at a time: while no time to live has
\* elapsed, two calls of executeWithLock on the same (user, operation) are
\* never both inside fn.
C3_MutualExclusion ==
  \A s, t \in Slots :
    (s # t /\ InFn(s) /\ InFn(t) /\ slot[s].uid = slot[t].uid) => slot[s].op # slot[t].op

\* C4: at most one composition executes per user at any time.
C4_OneComposition ==
  \A s, t \in Slots :
    (slot[s].pc = "bg_compose" /\ slot[t].pc = "bg_compose" /\ slot[s].uid = slot[t].uid)
      => s = t

\* The steps of executeWithLock: the SET NX, and the finally block.
AcquireStep(s) == slot[s].pc = "ewl_acquire" /\ slot'[s].pc # "ewl_acquire"
ReleaseStep(s) == slot[s].pc = "ewl_release" /\ slot'[s].pc # "ewl_release"
Held(s) == lock[slot[s].uid][slot[s].op].held

\* C5: an acquire succeeds exactly when the lock key is absent and leaves the
\* key present, so of two acquires with no release between them one succeeds
\* and one fails; once the holder has released, or the lock's time to live has
\* elapsed, the key is absent and the next acquire succeeds.
C5_AcquireRelease ==
  [][/\ \A s \in Slots : AcquireStep(s) =>
          /\ slot'[s].acquired = ~Held(s)
          /\ lock'[slot[s].uid][slot[s].op].held
          /\ slot'[s].acquired => lock'[slot[s].uid][slot[s].op].ttl = LOCK_TTL
          /\ ~slot'[s].acquired => lock' = lock
     /\ \A s \in Slots : (ReleaseStep(s) /\ slot[s].acquired) =>
          ~lock'[slot[s].uid][slot[s].op].held
     /\ \A u \in Users, op \in Operations :
          (\E d \in TickSizes : d >= lock[u][op].ttl /\ Tick(d)) => ~lock'[u][op].held]_vars

\* A synthesis lock has outlived its time to live: the next task has acquired
\* it while the task that took it first is still composing.
C5_Witness ==
  /\ ticks > 0
  /\ \E s, t \in Slots :
       /\ s # t
       /\ InFn(s) /\ slot[s].op = "synthesis"
       /\ InFn(t) /\ slot[t].op = "synthesis"
       /\ lock["U1"]["synthesis"] = [held |-> TRUE, ttl |-> LOCK_TTL, value |-> ticks]

\* C6: when the lock is held, executeWithLock returns success = false with the
\* error "Operation in progress": it changes nothing in the store, never enters
\* fn, and goes straight to its return, without waiting or trying again.
C6_ContendedReturns ==
  [][/\ \A s \in Slots : (AcquireStep(s) /\ Held(s)) =>
          /\ slot'[s] = [slot[s] EXCEPT !.pc = "ewl_release", !.acquired = FALSE,
                                        !.lockResult = "Operation in progress"]
          /\ store' = store
     /\ \A s \in Slots : (ReleaseStep(s) /\ ~slot[s].acquired) =>
          /\ slot[s].lockResult = "Operation in progress"
          /\ slot'[s].pc = "done"
          /\ slot'[s].lockResult = "Operation in progress"
          /\ << userState', synthesis', images', activeUsers' >>
               = << userState, synthesis, images, activeUsers >>]_vars

\* A call has been rejected while another call is inside fn under the same lock.
C6_Witness ==
  \E s, t \in Slots :
    /\ slot[s].pc = "ewl_release" /\ ~slot[s].acquired
    /\ slot[s].lockResult = "Operation in progress"
    /\ InFn(t) /\ slot[t].uid = slot[s].uid /\ slot[t].op = slot[s].op
    /\ Held(t)

\* C7: when the lock is acquired, executeWithLock enters fn, and on the way out,
\* whether fn returned or threw, deletes the lock key: the result is success
\* when fn returned and fn's error message when it threw, fn is not entered
\* again, and the key is absent when the call returns.
C7_RunsAndReleases ==
  [][/\ \A s \in Slots : (AcquireStep(s) /\ ~Held(s)) =>
          /\ slot'[s].acquired
          /\ slot'[s].pc = FnEntry(slot[s].op)
     /\ \A s \in Slots : (InFn(s) /\ slot'[s].pc # slot[s].pc /\ ~InFn(s)') =>
          /\ slot'[s].pc = "ewl_release"
          /\ slot'[s].lockResult = IF slot'[s].fnError = "" THEN "success"
                                   ELSE slot'[s].fnError
     /\ \A s \in Slots : (ReleaseStep(s) /\ slot[s].acquired) =>
          /\ ~lock'[slot[s].uid][slot[s].op].held
          /\ slot[s].lockResult = IF slot[s].fnError = "" THEN "success"
                                  ELSE slot[s].fnError
          /\ slot'[s].pc \in { "done", "ewl_acquire" }
          /\ slot'[s].pc = "ewl_acquire" => slot'[s].op # slot[s].op]_vars

\* One call has returned fn's error and another has returned success, and no
\* lock key of the user is left.
C7_Witness ==
  \E s, t \in Slots :
    /\ slot[s].pc = "done" /\ slot[s].lockResult = DownloadError
    /\ slot[t].pc = "done" /\ slot[t].lockResult = "success"
    /\ \A op \in Operations : ~lock[slot[s].uid][op].held

\* The background tasks of user u: started by a handler that has returned, not
\* yet finished.
TaskSlots(u) ==
  { s \in Slots : slot[s].uid = u /\ slot[s].handlerDone /\ ~Free(s) }

\* The upload handlers of u whose transition to generating_image has succeeded
\* and which are about to start the task.
AboutToStart(u) ==
  { s \in Slots : /\ slot[s].uid = u /\ ~slot[s].handlerDone
                  /\ slot[s].pc = "ewl_release" /\ slot[s].acquired
                  /\ slot[s].transitioned /\ slot[s].hasOther }

ResultCheckStates ==
  { PASSIVE_AWAITING_RESULT_CHECK_CHARACTER, PASSIVE_AWAITING_RESULT_CHECK_CLOTHING }

SessionRank(st) ==
  CASE st = NIL -> 0
    [] st = PASSIVE_AWAITING_CHARACTER -> 1
    [] st = PASSIVE_AWAITING_CLOTHING -> 2
    [] st = GENERATING_IMAGE -> 3
    [] OTHER -> 4

\* C8: for a fresh user, START, then the character image, then the clothing
\* image bring the session to generating_image and start exactly one
\* background task, whatever duplicates are delivered and however they
\* interleave: before generating_image there is no task; in generating_image
\* there is exactly one task, started or about to be; afterwards there is at
\* most that one; the session only moves forward; and the clothing upload
\* that finds the session awaiting clothing moves it to generating_image.
C8_OneTask ==
  /\ [](LET st == userState["U1"].val
            n == Cardinality(TaskSlots("U1"))
            a == Cardinality(AboutToStart("U1"))
        IN /\ SessionRank(st) < 3 => n + a = 0
           /\ st = GENERATING_IMAGE => n + a = 1
           /\ st \in ResultCheckStates =>
                /\ n + a <= 1
                /\ \A s \in TaskSlots("U1") : slot[s].pc = "ewl_release")
  /\ [][/\ SessionRank(userState'["U1"].val) >= SessionRank(userState["U1"].val)
        /\ userState["U1"].val \in ResultCheckStates => userState'["U1"] = userState["U1"]
        /\ \A s \in Slots :
             ( /\ slot[s].pc = "img_cas" /\ slot'[s].pc # "img_cas"
               /\ slot[s].op = "clothing_upload"
               /\ userState["U1"].val = PASSIVE_AWAITING_CLOTHING )
             => userState'["U1"].val = GENERATING_IMAGE]_vars

\* The task is composing in generating_image with both images stored, while a
\* duplicate of the clothing upload has been turned down.
C8_Witness ==
  /\ userState["U1"].val = GENERATING_IMAGE
  /\ images["U1"].fields = { "character", "clothing" }
  /\ \E s, t \in Slots :
       /\ slot[s].pc = "bg_compose" /\ slot[s].trigger = "clothing"
       /\ slot[t].pc = "done"
       /\ slot[t].replies = << Reply("ERROR_UPLOAD_FAILED", 0) >>

\* The step of a background task out of pc.
TaskStep(s, pc) == slot[s].pc = pc /\ slot'[s].pc # pc /\ slot[s].handlerDone

\* C9: when the task triggered by the clothing upload has composed
\* successfully, its last step leaves the session in
\* passive_awaiting_result_check_clothing with the result completed and
\* carrying the image path the task produced; the CHECK_RESULT that follows
\* finds both, replies with that image path, deletes the result and sets the
\* session to idle.
C9_ResultDelivered ==
  /\ [](\A s \in Slots :
          ( /\ slot[s].pc \in { "cr_get_state", "cr_get_result" }
            /\ slot[s].cur = PASSIVE_AWAITING_RESULT_CHECK_CLOTHING )
          => /\ userState[slot[s].uid].val = PASSIVE_AWAITING_RESULT_CHECK_CLOTHING
             /\ synthesis[slot[s].uid].status \in { "completed", "failed" })
  /\ [][\A s \in Slots :
          LET r == slot[s] IN
          /\ ( TaskStep(s, "bg_transition") /\ r.trigger = "clothing" /\ r.outcome = "ok" )
             => /\ userState'[r.uid].val = PASSIVE_AWAITING_RESULT_CHECK_CLOTHING
                /\ synthesis'[r.uid].status = "completed"
                /\ synthesis'[r.uid].imagePath = s
          /\ ( /\ r.pc = "cr_get_result" /\ slot'[s].pc # "cr_get_result"
               /\ r.obsState = PASSIVE_AWAITING_RESULT_CHECK_CLOTHING
               /\ synthesis[r.uid].status = "completed" )
             => /\ slot'[s].pc = "cr_clear"
                /\ slot'[s].replies =
                     << Reply("SYNTHESIS_RESULT", synthesis[r.uid].imagePath) >>
          /\ ( /\ r.pc = "cr_set_idle" /\ slot'[s].pc # "cr_set_idle"
               /\ r.obsState = PASSIVE_AWAITING_RESULT_CHECK_CLOTHING )
             => /\ slot'[s].pc = "done"
                /\ userState'[r.uid].val = IDLE
                /\ synthesis'[r.uid] = AbsentResult]_vars

\* The CHECK_RESULT that found the clothing-triggered result has replied with
\* the image and deleted the result, and is about to set the session to idle.
C9_Witness ==
  \E s \in Slots :
    /\ slot[s].pc = "cr_set_idle"
    /\ slot[s].obsState = PASSIVE_AWAITING_RESULT_CHECK_CLOTHING
    /\ slot[s].obsResult.status = "completed"
    /\ slot[s].replies = << Reply("SYNTHESIS_RESULT", slot[s].obsResult.imagePath) >>
    /\ synthesis[slot[s].uid] = AbsentResult

C11_TaskCompletes ==
  (userState["U1"].val = GENERATING_IMAGE)
    ~> ( /\ userState["U1"].val \in ResultCheckStates
         /\ synthesis["U1"].status \in { "completed", "failed" } )

\* The slot runs an event handler that has not returned yet.
InHandler(s) == ~Free(s) /\ ~slot[s].handlerDone

C13_ClearAllEverywhere ==
  [][\A s \in Slots :
       /\ Receive(s, "U1", "CLEAR_ALL") => slot'[s].pc = "ca_images"
       /\ ( /\ slot[s].pc = "ca_set" /\ slot[s].ev = "CLEAR_ALL"
            /\ slot'[s].pc = "done" /\ slot[s].uid = "U1" )
          => /\ userState'["U1"].val = PASSIVE_AWAITING_CHARACTER
             /\ slot'[s].replies = << Reply("ALL_CLEARED_REQUEST_CHARACTER", 0) >>]_vars

\* C14: the session restarted by CLEAR_ALL (awaiting the character or the
\* clothing image) never shows the completed or failed result of a task
\* that was started before.
C14_NoStaleResult ==
  userState["U1"].val \in { PASSIVE_AWAITING_CHARACTER, PASSIVE_AWAITING_CLOTHING }
    => synthesis["U1"].status \notin { "completed", "failed" }

ErrorIntents ==
  { "ERROR_START_FIRST", "ERROR_WRONG_STATE", "ERROR_CANNOT_START", "ERROR_UPLOAD_FAILED",
    "ERROR_BUSY", "ERROR_SYNTHESIS_FAILED", "ERROR_NO_ACTIVE_SYNTHESIS",
    "ERROR_UPLOAD_BOTH_FIRST", "ERROR_CANNOT_REGENERATE" }
NoErrorReply(r) == \A i \in 1..Len(r.replies) : r.replies[i].intent \notin ErrorIntents

\* C16: a handler whose transition fails, because another event has advanced
\* the session, does nothing more: the failing call changes nothing in the
\* store, the handler returns without starting a task and without trying
\* again, and it reports no error.
C16_FailedTransitionNoOp ==
  [][\A s \in Slots :
       LET r == slot[s] IN
       /\ ( r.pc = "start_cas" /\ slot'[s].pc # "start_cas" /\ Stored(r.uid) # IDLE )
          => /\ store' = store
             /\ slot'[s].pc = "done"
             /\ NoErrorReply(slot'[s])
       /\ ( r.pc = "img_cas" /\ slot'[s].pc # "img_cas"
            /\ Stored(r.uid) # UploadExpected(r.op) )
          => store' = store
       /\ ( /\ ReleaseStep(s) /\ r.op \in { "character_upload", "clothing_upload" }
            /\ r.acquired /\ r.lockResult = "success" /\ ~r.transitioned )
          => /\ slot'[s].pc = "done"
             /\ NoErrorReply(slot'[s])]_vars

\* The session state a handler has read before it writes the session.
Observed(r) == IF r.pc = "ru_set" THEN r.cur ELSE r.obsState

\* C17: a handler writes the session only if the session is still in the state
\* the handler has read: the writes of CHECK_RESULT, REGENERATE and the
\* re-uploads, like the transitions of START and the uploads, leave a session
\* that has changed in between as it is.
C17_ConditionalWrites ==
  [][\A s \in Slots :
       LET r == slot[s] IN
       /\ ( /\ r.pc \in { "cr_set_idle", "rg_set", "ru_set" } /\ slot'[s].pc # r.pc
            /\ Stored(r.uid) # Observed(r) )
          => userState'[r.uid] = userState[r.uid]
       /\ ( /\ r.pc \in { "start_cas", "img_cas" } /\ slot'[s].pc # r.pc
            /\ Stored(r.uid) # CasExpected(r) )
          => userState'[r.uid] = userState[r.uid]]_vars

\* The events of the transition table, and the (state, event) pairs for which
\* the table has a transition; CLEAR_ALL has one in every state.
TableEvents ==
  { "START_FLOW", "IMAGE_MESSAGE", "CHECK_RESULT", "REGENERATE",
    "REUPLOAD_CHARACTER", "REUPLOAD_CLOTHING", "UNKNOWN" }
Expected(st, e) ==
  \/ st = IDLE /\ e = "START_FLOW"
  \/ st \in { PASSIVE_AWAITING_CHARACTER, PASSIVE_AWAITING_CLOTHING } /\ e = "IMAGE_MESSAGE"
  \/ st = GENERATING_IMAGE /\ e = "CHECK_RESULT"
  \/ st \in ResultCheckStates
       /\ e \in { "CHECK_RESULT", "REGENERATE", "REUPLOAD_CHARACTER", "REUPLOAD_CLOTHING" }

\* C18: an UNKNOWN command, or an event for which the current state has no
\* transition, is answered with one reply and nothing else: the handler
\* returns at once and the store is as it was.
C18_UnexpectedUnchanged ==
  [][\A s \in Slots, e \in TableEvents :
       ( Receive(s, "U1", e) /\ ~Expected(Stored("U1"), e) )
       => /\ slot'[s].pc = "done"
          /\ Len(slot'[s].replies) = 1
          /\ store' = store]_vars

\* A key that was written with time to live T and has lived for d seconds
\* more: gone when d uses up what was left, else d nearer to its end.
AfterSeconds(e, d, absent) == IF d >= e.ttl THEN absent ELSE [e EXCEPT !.ttl = e.ttl - d]

\* C19: a key is absent once the time to live of its last write has elapsed,
\* and until then it is present with what is left of it; setUserState and a
\* successful transitionUserState restart the time to live of the session key,
\* a failed transitionUserState leaves it as it is.
C19_TimeToLive ==
  /\ [](\A u \in Users :
          /\ userState[u].val # NIL => userState[u].ttl \in 1..SYNTHESIS_TTL
          /\ userState[u].val = NIL => userState[u] = AbsentState
          /\ synthesis[u].status # NIL => synthesis[u].ttl \in 1..SYNTHESIS_TTL
          /\ images[u].fields # {} => images[u].ttl \in 1..CACHE_TIMEOUT
          /\ \A op \in Operations : lock[u][op].held => lock[u][op].ttl \in 1..LOCK_TTL)
  /\ [][/\ \A d \in TickSizes : Tick(d) =>
             \A u \in Users :
               /\ userState'[u] = AfterSeconds(userState[u], d, AbsentState)
               /\ synthesis'[u] = AfterSeconds(synthesis[u], d, AbsentResult)
               /\ images'[u] = AfterSeconds(images[u], d, AbsentImages)
               /\ \A op \in Operations :
                    lock'[u][op] = AfterSeconds(lock[u][op], d, AbsentLock)
        /\ \A s \in Slots :
             LET r == slot[s] IN
             /\ ( r.pc \in { "follow_set", "cr_set_idle", "rg_set", "ru_set", "ca_set" }
                  /\ slot'[s].pc # r.pc )
                => /\ userState'[r.uid].val # NIL
                   /\ userState'[r.uid].ttl = SYNTHESIS_TTL
             /\ CasStep(s) =>
                  IF Stored(r.uid) = CasExpected(r)
                  THEN userState'[r.uid].ttl = SYNTHESIS_TTL
                  ELSE userState'[r.uid] = userState[r.uid]]_vars

\* Time has passed: the images are partly through their time to live, and the
\* session key, set to idle by CHECK_RESULT since, has its full time again.
C19_Witness ==
  /\ ticks > 0
  /\ userState["U1"] = [val |-> IDLE, ttl |-> SYNTHESIS_TTL]
  /\ images["U1"].fields # {} /\ images["U1"].ttl < CACHE_TIMEOUT
  /\ synthesis["U1"] = AbsentResult

\* C20: once the longest time to live has elapsed with no new write, nothing
\* of any user is left in the store, and the session reads as idle.
C20_NothingRemains ==
  [][(\E d \in TickSizes : d >= SYNTHESIS_TTL /\ d >= CACHE_TIMEOUT /\ d >= LOCK_TTL /\ Tick(d))
       => \A u \in Users :
            /\ userState'[u] = AbsentState
            /\ \A op \in Operations : lock'[u][op] = AbsentLock
            /\ synthesis'[u] = AbsentResult
            /\ images'[u] = AbsentImages
            /\ u \notin activeUsers']_vars

\* C21: a holder that never releases does not keep its lock for ever: when
\* LOCK_TTL seconds pass every lock key is gone, whatever its holder is doing,
\* and the next acquire of that key succeeds and enters fn although the first
\* holder is still inside fn.
C21_ExpiredLockFree ==
  [][/\ (\E d \in TickSizes : d >= LOCK_TTL /\ Tick(d)) =>
          /\ \A u \in Users, op \in Operations : lock'[u][op] = AbsentLock
          /\ slot' = slot
     /\ \A s \in Slots :
          ( AcquireStep(s) /\ lock[slot[s].uid][slot[s].op] = AbsentLock ) =>
            /\ slot'[s].acquired
            /\ slot'[s].pc = FnEntry(slot[s].op)
            /\ lock'[slot[s].uid][slot[s].op] = [held |-> TRUE, ttl |-> LOCK_TTL, value |-> ticks]]_vars

\* The holder of the character_upload lock has stopped before its download;
\* the time to live has elapsed and a second upload has acquired the same lock.
C21_Witness ==
  /\ ticks > 0
  /\ \E s, t \in Slots :
       /\ s # t
       /\ slot[s].pc = "img_save" /\ slot[s].acquired /\ slot[s].op = "character_upload"
       /\ InFn(t) /\ slot[t].op = "character_upload" /\ slot[t].uid = slot[s].uid
       /\ userState[slot[s].uid].val = PASSIVE_AWAITING_CHARACTER

\* The keys of user u.
KeysOf(u) ==
  { StateKey(u), SynthesisKey(u), ImagesKey(u) } \cup { LockKey(u, op) : op \in Operations }

\* C22: a step of a handler or task of user u leaves the session, lock,
\* result and image records of every other user, and the membership of every
\* other user in active_users, as they were, and the keys it collects for
\* deletion are keys of u.
C22_OtherUsersUntouched ==
  [][\A s \in Slots :
       ( ~Free(s) /\ slot'[s] # slot[s] ) =>
         /\ \A v \in Users \ {slot[s].uid} :
              /\ userState'[v] = userState[v]
              /\ lock'[v] = lock[v]
              /\ synthesis'[v] = synthesis[v]
              /\ images'[v] = images[v]
              /\ (v \in activeUsers') = (v \in activeUsers)
         /\ slot'[s].keys \subseteq KeysOf(slot[s].uid)]_vars

\* The intents among the replies of a slot.
Intents(r) == { r.replies[i].intent : i \in 1..Len(r.replies) }

\* C23: a trigger whose background task is rejected at the synthesis lock is
\* answered with the busy reply, and never with the reply that processing has
\* started.
C23_BusyOnContention ==
  [][\A s \in Slots :
       ( ReleaseStep(s) /\ slot[s].op = "synthesis" /\ ~slot[s].acquired ) =>
         /\ "ERROR_BUSY" \in Intents(slot'[s])
         /\ "PROCESSING" \notin Intents(slot'[s])]_vars

\* C24: when the store does not answer during an event, processEvent fails
\* explicitly: the call is rejected to its caller and no reply is made up in
\* place of the failure.
C24_StoreFailureReachesCaller ==
  [][\A s \in Slots, e \in UploadEvents :
       getUserStateThrows(s, "U1", e) =>
         /\ slot'[s].pc = "rejected"
         /\ slot'[s].replies = << >>]_vars

UploadOps == { "character_upload", "clothing_upload" }

\* C25: with the events handled one after the other, an image received in
\* awaiting character is taken as the character and one received in awaiting
\* clothing as the clothing; once it is stored, the session moves to
\* generating_image when the other image is stored and to the other awaiting
\* state when it is not; the handler then answers "processing" and fires
\* exactly one task whose trigger is the image just received, or prompts for
\* the other image and fires nothing.
C25_UploadTransitions ==
  [][/\ \A s \in Slots :
          Receive(s, "U1", "IMAGE_MESSAGE") =>
            /\ Stored("U1") = PASSIVE_AWAITING_CHARACTER =>
                 slot'[s].pc = "ewl_acquire" /\ slot'[s].op = "character_upload"
            /\ Stored("U1") = PASSIVE_AWAITING_CLOTHING =>
                 slot'[s].pc = "ewl_acquire" /\ slot'[s].op = "clothing_upload"
     /\ \A s \in Slots :
          LET r == slot[s]
              other == hasImage(r.uid, Other(UploadType(r.op)))
          IN
          /\ ( r.pc = "img_cas" /\ slot'[s].pc # "img_cas" ) =>
               /\ hasImage(r.uid, UploadType(r.op))
               /\ slot'[s].transitioned
               /\ userState'[r.uid].val =
                    IF other THEN GENERATING_IMAGE
                    ELSE IF r.op = "character_upload" THEN PASSIVE_AWAITING_CLOTHING
                    ELSE PASSIVE_AWAITING_CHARACTER
          /\ ( ReleaseStep(s) /\ r.op \in UploadOps /\ r.lockResult = "success" ) =>
               /\ \A t \in Slots \ {s} : slot'[t] = slot[t]
               /\ IF other
                  THEN /\ Stored(r.uid) = GENERATING_IMAGE
                       /\ slot'[s].replies = << Reply("PROCESSING", 0) >>
                       /\ slot'[s].pc = "ewl_acquire" /\ slot'[s].op = "synthesis"
                       /\ slot'[s].handlerDone
                       /\ slot'[s].trigger = UploadType(r.op)
                  ELSE /\ Stored(r.uid) = UploadExpected(
                            IF r.op = "character_upload" THEN "clothing_upload"
                            ELSE "character_upload")
                       /\ slot'[s].pc = "done"
                       /\ slot'[s].replies =
                            << Reply(IF r.op = "character_upload" THEN "REQUEST_CLOTHING"
                                     ELSE "REQUEST_CHARACTER", 0) >>]_vars

\* A second round: the clothing of the first round is still stored when the
\* character arrives in awaiting character, and the task is fired with trigger
\* character.
C25_Witness ==
  \E s \in Slots :
    /\ slot[s].pc = "ewl_acquire" /\ slot[s].op = "synthesis"
    /\ slot[s].trigger = "character" /\ slot[s].handlerDone
    /\ slot[s].replies = << Reply("PROCESSING", 0) >>
    /\ userState["U1"].val = GENERATING_IMAGE
    /\ images["U1"].fields = { "character", "clothing" }

\* The result-check state that records trigger X.
ResultReadyFrom(type) ==
  IF type = "character" THEN PASSIVE_AWAITING_RESULT_CHECK_CHARACTER
  ELSE PASSIVE_AWAITING_RESULT_CHECK_CLOTHING

Stepped(s) == slot'[s] # slot[s]

C30_DevInitLockKept ==
  /\ \A s \in Slots :
       ( InFn(s) /\ slot[s].op = "dev_init" ) => lock[slot[s].uid]["dev_init"].held
  /\ \A s, t \in Slots :
       ( InFn(s) /\ slot[s].op = "dev_init" /\ InFn(t) /\ slot[t].op = "dev_init"
         /\ slot[s].uid = slot[t].uid ) => s = t

\* The outcomes of the three handlers of the orchestrator, by the stored state.
FollowHandled(q) == q.pc = "follow_set"

ImageHandled(q, st) ==
  CASE st = PASSIVE_AWAITING_CHARACTER -> q.pc = "ewl_acquire" /\ q.op = "character_upload"
    [] st = PASSIVE_AWAITING_CLOTHING -> q.pc = "ewl_acquire" /\ q.op = "clothing_upload"
    [] st = IDLE -> q.pc = "done" /\ q.replies = << Reply("WELCOME", 0) >>
    [] OTHER -> q.pc = "done" /\ q.replies = << Reply("ERROR_WRONG_STATE", 0) >>

TextHandled(q, st, text) ==
  CASE st = IDLE /\ text = "START_FLOW" -> q.pc = "orch_start_set"
    [] st = IDLE -> q.pc = "done" /\ q.replies = << Reply("WELCOME", 0) >>
    [] st \in { PASSIVE_AWAITING_CHARACTER, PASSIVE_AWAITING_CLOTHING } ->
         q.pc = "done" /\ q.replies = << Reply("ERROR_EXPECTING_IMAGE", 0) >>
    [] OTHER -> q.pc = "done"

C32_PendingOnlyWhileUndecided ==
  Quiet => \A u \in Users :
    pending[u].imageId # NIL => userState[u].val = WAITING_FOR_IMAGE_TYPE

\* C33: a call of executeWithLock that does not acquire the lock leaves every
\* lock key as it is, from its SET NX to its return.
C33_RejectedKeepsLock ==
  [][\A s \in Slots :
       /\ ( AcquireStep(s) /\ ~slot'[s].acquired ) => lock' = lock
       /\ ( ReleaseStep(s) /\ ~slot[s].acquired ) => lock' = lock]_vars

\* C34: the release of a call whose lock has expired and whose key holds the
\* lock of a later call leaves that lock in place.
C34_ReleaseOwnLockOnly ==
  [][\A s \in Slots :
       ( /\ ReleaseStep(s) /\ slot[s].acquired
         /\ Held(s) /\ lock[slot[s].uid][slot[s].op].value # slot[s].acquiredAt )
       => lock' = lock]_vars

\* The last state write of the background task.
FinalStateWrite(s) ==
  /\ slot[s].pc \in { "bg_transition", "orch_final_state" }
  /\ slot'[s].pc = "ewl_release"

\* C35: the final state write of the task, after a success and after a failure,
\* leaves the session as it is unless the session is still generating.
C35_FinalWriteConditional ==
  [][\A s \in Slots :
       ( FinalStateWrite(s) /\ Stored(slot[s].uid) # GENERATING_IMAGE )
       => userState'[slot[s].uid].val = userState[slot[s].uid].val]_vars

\* C36: whenever the session is in a result-check state, a synthesis result is
\* stored with status completed or failed.
C36_ResultReadyHasResult ==
  \A u \in Users :
    userState[u].val \in ResultCheckStates =>
      synthesis[u].status \in { "completed", "failed" }

\* C37: when no handler is running and the session awaits the clothing image,
\* the character image is stored.
C37_AwaitingClothingHasCharacter ==
  Quiet => \A u \in Users :
    userState[u].val = PASSIVE_AWAITING_CLOTHING => hasImage(u, "character")

\* C38: the handler of an event sends at most one reply.
C38_OneReplyPerEvent ==
  \A s \in Slots : Len(slot[s].replies) <= 1

====
